---- MODULE Spec2Model ----
(***************************************************************************)
(* webcsv: a CSV file is loaded into an in-memory SQLite table at startup  *)
(* (parseEnvironment, processCSV) and then served read-only over HTTP      *)
(* (serveJSON, handleRequest).  Text is modelled as sequences of           *)
(* one-character strings, so that splitting, trimming, sanitizing and      *)
(* number parsing are computed character by character, as the code does.   *)
(***************************************************************************)
EXTENDS Integers, Sequences, FiniteSets, TLC

VARIABLES pc, cfg, file, csvDelimiter, csvFieldCount, csvHeader, csvIndicies,
          reader, db, rows, req, resp, cell, value

vars == <<pc, cfg, file, csvDelimiter, csvFieldCount, csvHeader, csvIndicies,
          reader, db, rows, req, resp, cell, value>>

(***************************************************************************)
(* Bounds of the exploration.                                              *)
(***************************************************************************)
\* configured --field-count values explored: 0 .. MaxFieldCount
MaxFieldCount == 3
\* (key, value) pairs carried by one request: 0 .. MaxParams
MaxParams == 2
\* length of the cells fed to the result projector on its own
MaxCellLen == 3

(***************************************************************************)
(* Characters and strings.                                                 *)
(***************************************************************************)
UpperLetters == <<"A", "B", "C", "D", "E", "F", "G", "H", "I", "J", "K", "L", "M",
                  "N", "O", "P", "Q", "R", "S", "T", "U", "V", "W", "X", "Y", "Z">>
LowerLetters == <<"a", "b", "c", "d", "e", "f", "g", "h", "i", "j", "k", "l", "m",
                  "n", "o", "p", "q", "r", "s", "t", "u", "v", "w", "x", "y", "z">>
Digits == <<"0", "1", "2", "3", "4", "5", "6", "7", "8", "9">>

Range(s) == {s[i] : i \in DOMAIN s}

IsUpper(c) == c \in Range(UpperLetters)
IsLetter(c) == c \in Range(UpperLetters) \cup Range(LowerLetters)
IsDigit(c) == c \in Range(Digits)
IsAlnum(c) == IsLetter(c) \/ IsDigit(c)

\* strings.ToLower, one character
ToLowerChar(c) ==
    IF IsUpper(c)
    THEN LowerLetters[CHOOSE i \in DOMAIN UpperLetters : UpperLetters[i] = c]
    ELSE c

\* strings.ToLower
ToLower(s) == [i \in DOMAIN s |-> ToLowerChar(s[i])]

\* the value of a decimal digit
DigitVal(c) == (CHOOSE i \in DOMAIN Digits : Digits[i] = c) - 1

\* a byte that is not valid UTF-8, and utf8.RuneError
InvalidByte == "<FF>"
RuneError == "<RuneError>"

\* utf8.DecodeRuneInString: the first rune of s; RuneError when s is empty or
\* starts with an invalid encoding.  What follows the first rune is not looked at.
DecodeRuneInString(s) ==
    IF s = <<>> THEN RuneError
    ELSE IF s[1] = InvalidByte THEN RuneError
    ELSE s[1]

\* strings.Split(s, sep) for a one-character separator
RECURSIVE Split(_, _)
Split(s, sep) ==
    IF \A i \in DOMAIN s : s[i] # sep
    THEN <<s>>
    ELSE LET i == CHOOSE k \in DOMAIN s : s[k] = sep /\ \A j \in 1..(k-1) : s[j] # sep
         IN <<SubSeq(s, 1, i - 1)>> \o Split(SubSeq(s, i + 1, Len(s)), sep)

\* trySplit: the first separator of seps that splits str in more than one piece
RECURSIVE trySplit(_, _)
trySplit(str, seps) ==
    IF seps = <<>> THEN <<str>>
    ELSE IF Len(Split(str, Head(seps))) # 1 THEN Split(str, Head(seps))
    ELSE trySplit(str, Tail(seps))

\* regexp [^a-zA-Z0-9]+ replaced by "": only the alphanumeric characters stay
StripNonAlnum(s) == SelectSeq(s, IsAlnum)

\* the column name processCSV derives from a header token
ColumnName(token) == ToLower(StripNonAlnum(token))

(***************************************************************************)
(* The store: the SQLite engine behind database/sql and go-sqlite3, for    *)
(* the statements the program sends it.  A statement is tokenized and      *)
(* parsed from its text, so a statement the program builds wrongly is      *)
(* accepted or rejected as SQLite would.                                   *)
(***************************************************************************)
IsWordChar(c) == IsAlnum(c) \/ c = "_"

\* the length of the longest prefix of s made of word characters
RECURSIVE WordLen(_)
WordLen(s) == IF s = <<>> \/ ~IsWordChar(s[1]) THEN 0 ELSE 1 + WordLen(Tail(s))

\* SQL tokens of a statement text: words, and one-character symbols; blanks separate
RECURSIVE Tokenize(_)
Tokenize(s) ==
    IF s = <<>> THEN <<>>
    ELSE IF s[1] = " " THEN Tokenize(Tail(s))
    ELSE IF IsWordChar(s[1])
         THEN LET n == WordLen(s)
              IN <<SubSeq(s, 1, n)>> \o Tokenize(SubSeq(s, n + 1, Len(s)))
         ELSE << <<s[1]>> >> \o Tokenize(Tail(s))

KwSelect == <<"s", "e", "l", "e", "c", "t">>
KwDelete == <<"d", "e", "l", "e", "t", "e">>
KwFrom == <<"f", "r", "o", "m">>
KwWhere == <<"w", "h", "e", "r", "e">>
KwAnd == <<"a", "n", "d">>
KwCreate == <<"c", "r", "e", "a", "t", "e">>
KwTable == <<"t", "a", "b", "l", "e">>
KwIndex == <<"i", "n", "d", "e", "x">>
KwOn == <<"o", "n">>
KwInsert == <<"i", "n", "s", "e", "r", "t">>
KwInto == <<"i", "n", "t", "o">>
KwValues == <<"v", "a", "l", "u", "e", "s">>
TableName == <<"c", "s", "v">>
SqlKeywords == {<<"s", "e", "l", "e", "c", "t">>,
                <<"f", "r", "o", "m">>,
                <<"w", "h", "e", "r", "e">>,
                <<"a", "n", "d">>,
                <<"d", "e", "l", "e", "t", "e">>,
                <<"c", "r", "e", "a", "t", "e">>,
                <<"t", "a", "b", "l", "e">>,
                <<"i", "n", "d", "e", "x">>,
                <<"o", "n">>,
                <<"i", "n", "s", "e", "r", "t">>,
                <<"i", "n", "t", "o">>,
                <<"v", "a", "l", "u", "e", "s">>,
                <<"a", "s">>,
                <<"o", "r">>,
                <<"n", "o", "t">>,
                <<"n", "u", "l", "l">>,
                <<"b", "y">>,
                <<"o", "r", "d", "e", "r">>,
                <<"g", "r", "o", "u", "p">>,
                <<"l", "i", "m", "i", "t">>,
                <<"s", "e", "t">>,
                <<"u", "p", "d", "a", "t", "e">>,
                <<"d", "r", "o", "p">>,
                <<"i", "n">>,
                <<"i", "s">>}

\* a bare SQL identifier: a word that starts with a letter or _ and is no keyword
IsIdentifier(t) ==
    /\ t # <<>>
    /\ IsLetter(t[1]) \/ t[1] = "_"
    /\ \A i \in DOMAIN t : IsWordChar(t[i])
    /\ ToLower(t) \notin SqlKeywords

IsKw(t, kw) == ToLower(t) = kw

\* the position of the column an identifier names (names compare without case); 0 if none
ColumnIndex(columns, name) ==
    IF \E i \in DOMAIN columns : ToLower(columns[i]) = ToLower(name)
    THEN CHOOSE i \in DOMAIN columns : ToLower(columns[i]) = ToLower(name)
    ELSE 0

\* the index of the first token equal to sym, 0 if none
FirstIndexOf(toks, sym) ==
    IF \E i \in DOMAIN toks : toks[i] = sym
    THEN CHOOSE i \in DOMAIN toks : toks[i] = sym /\ \A j \in 1..(i-1) : toks[j] # sym
    ELSE 0

\* the pieces of a token list between the occurrences of sym
RECURSIVE SplitTokens(_, _)
SplitTokens(toks, sym) ==
    LET i == FirstIndexOf(toks, sym)
    IN IF i = 0 THEN <<toks>>
       ELSE <<SubSeq(toks, 1, i - 1)>> \o SplitTokens(SubSeq(toks, i + 1, Len(toks)), sym)

IsOperand(t) == t = <<"?">> \/ IsIdentifier(t)

NoConds == [ok |-> FALSE, ops |-> <<>>]

\* a parsed condition list with one more equality in front
ConsConds(l, r, rest) ==
    IF rest.ok THEN [ok |-> TRUE, ops |-> <<l, r>> \o rest.ops] ELSE NoConds

\* expr: operand = operand (AND operand = operand)*; ops lists the operands in order
RECURSIVE ParseConds(_)
ParseConds(toks) ==
    IF Len(toks) < 3 THEN NoConds
    ELSE IF ~IsOperand(toks[1]) \/ toks[2] # <<"=">> \/ ~IsOperand(toks[3]) THEN NoConds
    ELSE IF Len(toks) = 3 THEN [ok |-> TRUE, ops |-> <<toks[1], toks[3]>>]
    ELSE IF ~IsKw(toks[4], KwAnd) THEN NoConds
    ELSE ConsConds(toks[1], toks[3], ParseConds(SubSeq(toks, 5, Len(toks))))

\* [WHERE expr]
ParseWhere(toks) ==
    IF toks = <<>> THEN [ok |-> TRUE, ops |-> <<>>]
    ELSE IF IsKw(toks[1], KwWhere) THEN ParseConds(Tail(toks))
    ELSE NoConds

BadStmt == [err |-> TRUE, kind |-> "none", ops |-> <<>>, na |-> 0]

IsSelect(toks) ==
    /\ Len(toks) >= 4
    /\ IsKw(toks[1], KwSelect) /\ toks[2] = <<"*">>
    /\ IsKw(toks[3], KwFrom) /\ IsKw(toks[4], TableName)

IsDelete(toks) ==
    /\ Len(toks) >= 3
    /\ IsKw(toks[1], KwDelete) /\ IsKw(toks[2], KwFrom)
    /\ IsKw(toks[3], TableName)

\* what follows a table alias, if there is one: a table alias may follow the
\* table name of a SELECT, with or without AS
SkipAlias(toks) ==
    IF toks # <<>> /\ IsIdentifier(toks[1]) THEN Tail(toks) ELSE toks

\* the statement of a known kind with its parsed WHERE clause: every identifier
\* must name a column; na is the number of ? parameters (NumInput)
Resolve(kind, w, columns) ==
    IF ~w.ok THEN BadStmt
    ELSE IF \E i \in DOMAIN w.ops : w.ops[i] # <<"?">> /\ ColumnIndex(columns, w.ops[i]) = 0
    THEN BadStmt
    ELSE [err |-> FALSE, kind |-> kind, ops |-> w.ops,
          na |-> Cardinality({i \in DOMAIN w.ops : w.ops[i] = <<"?">>})]

\* sqlite3_prepare of one statement against the table:
\*   SELECT * FROM csv [alias] [WHERE expr]   |   DELETE FROM csv [WHERE expr]
Prepare(toks, columns) ==
    IF IsSelect(toks)
    THEN Resolve("select", ParseWhere(SkipAlias(SubSeq(toks, 5, Len(toks)))), columns)
    ELSE IF IsDelete(toks)
    THEN Resolve("delete", ParseWhere(SubSeq(toks, 4, Len(toks))), columns)
    ELSE BadStmt

NoQuery == [err |-> TRUE, stmt |-> BadStmt, args |-> <<>>]

\* the tokens of the first statement of a text, and those after its semicolon
FirstStatement(toks) ==
    IF FirstIndexOf(toks, <<";">>) = 0 THEN toks
    ELSE SubSeq(toks, 1, FirstIndexOf(toks, <<";">>) - 1)
RestStatements(toks) ==
    IF FirstIndexOf(toks, <<";">>) = 0 THEN <<>>
    ELSE SubSeq(toks, FirstIndexOf(toks, <<";">>) + 1, Len(toks))

\* go-sqlite3 SQLiteConn.query: the statements of the text are prepared one after
\* the other, each taking its parameters from the front of args; the rows handed
\* back are those of the last statement, the only one that is stepped.
RECURSIVE ConnQuery(_, _, _)
ConnStep(s, tail, args, columns) ==
    IF s.err THEN NoQuery
    ELSE IF Len(args) < s.na THEN NoQuery
    ELSE IF tail = <<>> THEN [err |-> FALSE, stmt |-> s, args |-> SubSeq(args, 1, s.na)]
    ELSE ConnQuery(tail, SubSeq(args, s.na + 1, Len(args)), columns)
ConnQuery(toks, args, columns) ==
    ConnStep(Prepare(FirstStatement(toks), columns), RestStatements(toks), args, columns)

\* the value of operand j of a statement for a row: a column's cell, or the
\* parameter bound to the j-th ? (parameters are numbered in order of appearance)
OperandValue(ops, j, row, args, columns) ==
    IF ops[j] = <<"?">>
    THEN args[Cardinality({k \in 1..j : ops[k] = <<"?">>})]
    ELSE row[ColumnIndex(columns, ops[j])]

\* the WHERE clause of a statement on a row: every equality holds (text compared
\* byte for byte: every column is text and every parameter is bound as text)
Matches(ops, row, args, columns) ==
    \A k \in 1..(Len(ops) \div 2) :
        OperandValue(ops, 2 * k - 1, row, args, columns)
            = OperandValue(ops, 2 * k, row, args, columns)

\* the rows of the table a prepared statement's WHERE clause selects, or leaves out
RowsWhere(q, table, wanted) ==
    LET pick(row) == Matches(q.stmt.ops, row, q.args, table.columns) = wanted
    IN SelectSeq(table.rows, pick)

\* the rows of the last statement, iterated to the end: a SELECT hands back the
\* rows it matches, in rowid order; a DELETE removes those it matches
StoreResult(q, table) ==
    IF q.err THEN [err |-> TRUE, columns |-> <<>>, rows |-> <<>>, after |-> table.rows]
    ELSE IF q.stmt.kind = "select"
    THEN [err |-> FALSE, columns |-> table.columns,
          rows |-> RowsWhere(q, table, TRUE), after |-> table.rows]
    ELSE [err |-> FALSE, columns |-> <<>>, rows |-> <<>>,
          after |-> RowsWhere(q, table, FALSE)]

\* db.Query followed by the iteration of its rows: the error, the result columns
\* and rows, and the rows the table holds afterwards
StoreQuery(query, args, table) ==
    StoreResult(ConnQuery(Tokenize(query), args, table.columns), table)

\* db.Exec of a CREATE TABLE text: create table csv ( name [type] {, name [type]} ) ;
\* the columns it declares, or an error (syntax, duplicate column name)
StoreCreateTable(query) ==
    LET toks == Tokenize(query)
        n == Len(toks)
        shape == /\ n >= 6
                 /\ IsKw(toks[1], KwCreate) /\ IsKw(toks[2], KwTable)
                 /\ IsKw(toks[3], TableName) /\ toks[4] = <<"(">>
                 /\ toks[n - 1] = <<")">> /\ toks[n] = <<";">>
        defs == IF shape THEN SplitTokens(SubSeq(toks, 5, n - 2), <<",">>) ELSE <<>>
        defsOk == \A i \in DOMAIN defs :
                      /\ Len(defs[i]) \in {1, 2}
                      /\ \A j \in DOMAIN defs[i] : IsIdentifier(defs[i][j])
        names == [i \in DOMAIN defs |-> ToLower(defs[i][1])]
        distinct == \A i, j \in DOMAIN defs : i # j => names[i] # names[j]
    IN IF shape /\ defsOk /\ distinct
       THEN [err |-> FALSE, columns |-> names]
       ELSE [err |-> TRUE, columns |-> <<>>]

\* db.Exec of a CREATE INDEX text: create index name on csv ( column )
StoreCreateIndex(query, table) ==
    LET toks == Tokenize(query)
        ok == /\ Len(toks) = 8
              /\ IsKw(toks[1], KwCreate) /\ IsKw(toks[2], KwIndex)
              /\ IsIdentifier(toks[3]) /\ IsKw(toks[4], KwOn)
              /\ IsKw(toks[5], TableName) /\ toks[6] = <<"(">>
              /\ IsIdentifier(toks[7]) /\ toks[8] = <<")">>
              /\ ColumnIndex(table.columns, toks[7]) # 0
              /\ ToLower(toks[3]) \notin table.indexes
    IN IF ok THEN [err |-> FALSE, name |-> ToLower(toks[3])]
       ELSE [err |-> TRUE, name |-> <<>>]

\* db.Exec of an INSERT text: insert into csv values ( ? {, ?} ) ;  with its arguments
StoreInsert(query, args, table) ==
    LET toks == Tokenize(query)
        n == Len(toks)
        shape == /\ n >= 8
                 /\ IsKw(toks[1], KwInsert) /\ IsKw(toks[2], KwInto)
                 /\ IsKw(toks[3], TableName) /\ IsKw(toks[4], KwValues)
                 /\ toks[5] = <<"(">> /\ toks[n - 1] = <<")">> /\ toks[n] = <<";">>
        params == IF shape THEN SplitTokens(SubSeq(toks, 6, n - 2), <<",">>) ELSE <<>>
        ok == /\ shape
              /\ \A i \in DOMAIN params : params[i] = << <<"?">> >>
              /\ Len(params) = Len(table.columns)
              /\ Len(args) = Len(params)
    IN [err |-> ~ok]

(***************************************************************************)
(* strconv.ParseFloat(s, 64), decimal syntax and the special values.  A    *)
(* number is kept exactly, as sign, decimal mantissa without trailing      *)
(* zeros and power of ten, so that equal numbers are equal records.  (The  *)
(* hexadecimal syntax needs a p exponent and the underscore a base prefix: *)
(* no text explored here has either.)                                      *)
(***************************************************************************)
SpecialInf == {<<"i", "n", "f">>, <<"i", "n", "f", "i", "n", "i", "t", "y">>}
SpecialNaN == <<"n", "a", "n">>

NotANumber == [ok |-> FALSE, kind |-> "none", neg |-> FALSE, mant |-> 0, exp |-> 0]

\* the number a string of decimal digits denotes
RECURSIVE DigitsValue(_)
DigitsValue(s) ==
    IF s = <<>> THEN 0 ELSE DigitsValue(SubSeq(s, 1, Len(s) - 1)) * 10 + DigitVal(s[Len(s)])

AllDigits(s) == \A i \in DOMAIN s : IsDigit(s[i])

\* mantissa and exponent with the mantissa's trailing zeros moved into the exponent
RECURSIVE Normalize(_, _)
Normalize(mant, exp) ==
    IF mant = 0 THEN [mant |-> 0, exp |-> 0]
    ELSE IF mant % 10 = 0 THEN Normalize(mant \div 10, exp + 1)
    ELSE [mant |-> mant, exp |-> exp]

\* the number of decimal digits of a positive integer
RECURSIVE NumDigits(_)
NumDigits(n) == IF n < 10 THEN 1 ELSE 1 + NumDigits(n \div 10)

\* the first four significant digits of a mantissa of at most four digits
RECURSIVE Lead4(_)
Lead4(n) == IF n >= 1000 THEN n ELSE Lead4(n * 10)

\* float64 range, for mantissas of at most four digits: beyond 1.797...e308 the
\* parse fails with ErrRange; below half the smallest denormal the result is 0
Overflows(mant, exp) ==
    LET e == NumDigits(mant) + exp - 1
    IN mant # 0 /\ (e > 308 \/ (e = 308 /\ Lead4(mant) >= 1798))
Underflows(mant, exp) ==
    LET e == NumDigits(mant) + exp - 1
    IN mant # 0 /\ (e < -324 \/ (e = -324 /\ Lead4(mant) <= 2470))

\* [digits][.digits][(e|E)[+|-]digits] with at least one mantissa digit
ParseDecimal(s, neg) ==
    LET isExp(c) == c = "e" \/ c = "E"
        ei == IF \E i \in DOMAIN s : isExp(s[i])
              THEN CHOOSE i \in DOMAIN s : isExp(s[i]) /\ \A j \in 1..(i-1) : ~isExp(s[j])
              ELSE 0
        m == IF ei = 0 THEN s ELSE SubSeq(s, 1, ei - 1)
        x == IF ei = 0 THEN <<>> ELSE SubSeq(s, ei + 1, Len(s))
        parts == Split(m, ".")
        int == parts[1]
        frac == IF Len(parts) = 2 THEN parts[2] ELSE <<>>
        mantOk == /\ Len(parts) <= 2
                  /\ AllDigits(int) /\ AllDigits(frac)
                  /\ Len(int) + Len(frac) >= 1
        xneg == x # <<>> /\ x[1] = "-"
        xdigits == IF x # <<>> /\ x[1] \in {"+", "-"} THEN Tail(x) ELSE x
        expOk == ei = 0 \/ (xdigits # <<>> /\ AllDigits(xdigits))
        xval == IF ei = 0 THEN 0
                ELSE IF xneg THEN 0 - DigitsValue(xdigits) ELSE DigitsValue(xdigits)
        n == Normalize(DigitsValue(int \o frac), xval - Len(frac))
    IN IF ~(mantOk /\ expOk) THEN NotANumber
       ELSE IF Overflows(n.mant, n.exp) THEN NotANumber
       ELSE IF Underflows(n.mant, n.exp)
            THEN [ok |-> TRUE, kind |-> "num", neg |-> neg, mant |-> 0, exp |-> 0]
       ELSE [ok |-> TRUE, kind |-> "num", neg |-> neg, mant |-> n.mant, exp |-> n.exp]

ParseFloat(s) ==
    LET signed == s # <<>> /\ s[1] \in {"+", "-"}
        neg == s # <<>> /\ s[1] = "-"
        body == IF signed THEN Tail(s) ELSE s
    IN IF ToLower(body) \in SpecialInf
       THEN [ok |-> TRUE, kind |-> "inf", neg |-> neg, mant |-> 0, exp |-> 0]
       ELSE IF ToLower(s) = SpecialNaN
       THEN [ok |-> TRUE, kind |-> "nan", neg |-> FALSE, mant |-> 0, exp |-> 0]
       ELSE ParseDecimal(body, neg)

(***************************************************************************)
(* handleRequest: the query built from the request's parameters, and the   *)
(* JSON value of each cell of each row that comes back.                    *)
(***************************************************************************)
SelectPrefix == <<"S", "E", "L", "E", "C", "T", " ", "*", " ", "F", "R", "O", "M", " ", "c", "s", "v", " ", "W", "H", "E", "R", "E", " ">>
ClauseSuffix == <<"=", "?", " ", "A", "N", "D", " ">>
\* the length of " AND ", which handleRequest cuts from the end of the query
TrimLen == 5

\* strings.Replace(s, ",", "", -1)
StripCommas(s) == LET notComma(c) == c # "," IN SelectSeq(s, notComma)

JsonString(s) == [t |-> "string", s |-> s, n |-> NotANumber]
JsonNumber(p) == [t |-> "number", s |-> <<>>, n |-> p]

\* a variant that keeps the comma-stripped text when it is no number
ProjectCellStripped(c) ==
    IF ParseFloat(StripCommas(c)).ok
    THEN JsonNumber(ParseFloat(StripCommas(c)))
    ELSE JsonString(StripCommas(c))

\* the JSON value of a cell: the number its comma-stripped text parses to, else
\* the cell as it is
ProjectCell(c) ==
    LET number == ParseFloat(StripCommas(c))
    IN IF number.ok THEN JsonNumber(number) ELSE JsonString(c)

\* the record of a row: each column's name with its cell's JSON value
ProjectRow(columns, values) ==
    [i \in DOMAIN columns |-> [column |-> columns[i], value |-> ProjectCell(values[i])]]

\* the keys of a request that carry at least one value
KeysOf(r) == {k \in DOMAIN r : r[k] # <<>>}

\* the orders in which Go may range over a map with these keys
Orders(S) == {o \in [1..Cardinality(S) -> S] : \A i, j \in DOMAIN o : i # j => o[i] # o[j]}

\* a variant that takes only the first value of each key
RECURSIVE PairsOfFirstValue(_, _)
PairsOfFirstValue(r, order) ==
    IF order = <<>> THEN <<>>
    ELSE << [key |-> Head(order), value |-> r[Head(order)][1]] >>
         \o PairsOfFirstValue(r, Tail(order))

\* the (key, value) pairs of a request, keys in the given order, each key's
\* values in the order of the URL
RECURSIVE PairsOf(_, _)
PairsOf(r, order) ==
    IF order = <<>> THEN <<>>
    ELSE [i \in DOMAIN r[Head(order)] |-> [key |-> Head(order), value |-> r[Head(order)][i]]]
         \o PairsOf(r, Tail(order))

\* the WHERE clauses: key=? AND  for every pair
RECURSIVE Clauses(_)
Clauses(pairs) ==
    IF pairs = <<>> THEN <<>> ELSE Head(pairs).key \o ClauseSuffix \o Clauses(Tail(pairs))

\* the query text: the prefix, the clauses, and the last TrimLen characters cut
BuildQuery(pairs) ==
    LET query == SelectPrefix \o Clauses(pairs)
    IN SubSeq(query, 1, Len(query) - TrimLen)

\* the query's positional arguments
BuildArgs(pairs) == [i \in DOMAIN pairs |-> pairs[i].value]

\* encoding/json refuses NaN and the infinities
Encodable(data) ==
    \A i \in DOMAIN data : \A j \in DOMAIN data[i] :
        data[i][j].value.t = "number" => data[i][j].value.n.kind = "num"

NoResponse == [status |-> 0, kind |-> "none", data |-> <<>>]

\* the status gin answers with when the JSON encoding of the body fails: the panic
\* of Render recovered as 500, or, in releases where Render records the error, the
\* 200 already set, in both cases without a body
RenderFailureStatus == {200, 500}

(***************************************************************************)
(* encoding/csv Reader over the file's lines, with Comma set to the        *)
(* configured delimiter and FieldsPerRecord left 0.  (No explored line     *)
(* holds a quote, so LazyQuotes has nothing to decide.)                    *)
(***************************************************************************)
NoRune == "<0>"

\* csv.validDelim
ValidDelim(r) == r \notin {NoRune, RuneError, "\"", "\r", "\n"}

\* the index of the first non-empty line at or after pos, 0 at the end of the file
NextLine(f, pos) ==
    IF \E i \in pos..Len(f) : f[i] # <<>>
    THEN CHOOSE i \in pos..Len(f) : f[i] # <<>> /\ \A j \in pos..(i-1) : f[j] = <<>>
    ELSE 0

\* Reader.Read: the next record, skipping empty lines; the first record fixes the
\* number of fields every later record must have
ReaderRead(rd, f, comma) ==
    LET i == NextLine(f, rd.pos)
        line == Split(f[i], comma)
        fpr == IF rd.fieldsPerRecord = 0 THEN Len(line) ELSE rd.fieldsPerRecord
    IN IF ~ValidDelim(comma)
       THEN [err |-> "errInvalidDelim", line |-> <<>>, reader |-> rd]
       ELSE IF i = 0
       THEN [err |-> "EOF", line |-> <<>>,
             reader |-> [pos |-> Len(f) + 1, fieldsPerRecord |-> rd.fieldsPerRecord]]
       ELSE [err |-> IF Len(line) # fpr THEN "ErrFieldCount" ELSE "nil",
             line |-> line,
             reader |-> [pos |-> i + 1, fieldsPerRecord |-> fpr]]

(***************************************************************************)
(* processCSV: the pieces of schema resolution and import.                 *)
(***************************************************************************)
CreateTablePrefix == <<"c", "r", "e", "a", "t", "e", " ", "t", "a", "b", "l", "e", " ", "c", "s", "v", " ", "(">>
ColumnLast == <<" ", "t", "e", "x", "t", ")", ";">>
ColumnNext == <<" ", "t", "e", "x", "t", ",", " ">>
CreateIndexPrefix == <<"c", "r", "e", "a", "t", "e", " ", "i", "n", "d", "e", "x", " ">>
CreateIndexMiddle == <<"_", "i", "d", "x", " ", "o", "n", " ", "c", "s", "v", " ", "(">>
CreateIndexSuffix == <<")">>
InsertPrefix == <<"i", "n", "s", "e", "r", "t", " ", "i", "n", "t", "o", " ", "c", "s", "v", " ", "v", "a", "l", "u", "e", "s", " ", "(">>
ParamLast == <<"?", ")", ";">>
ParamNext == <<"?", ",">>

\* a variant that always takes the file's first line
HeaderFromLine(custom, line) == line

\* the header in use once the file's first line is read: the custom header when
\* one was given, the line otherwise
HeaderAfterRead(custom, line) == IF Len(custom) = 0 THEN line ELSE custom

\* the field count in use: the configured one, or the header's length when it is 0
ResolveFieldCount(count, header) == IF count = 0 THEN Len(header) ELSE count

\* the CREATE TABLE text: the first n header tokens, sanitized
RECURSIVE CreateTableColumns(_, _, _)
CreateTableColumns(header, i, n) ==
    IF i > n THEN <<>>
    ELSE ColumnName(header[i]) \o (IF i = n THEN ColumnLast ELSE ColumnNext)
         \o CreateTableColumns(header, i + 1, n)

CreateTableQuery(header, n) == CreateTablePrefix \o CreateTableColumns(header, 1, n)

\* the CREATE INDEX text for one configured index, used as it was given
CreateIndexQuery(index) ==
    CreateIndexPrefix \o index \o CreateIndexMiddle \o index \o CreateIndexSuffix

\* the indexes loop: every index in turn, stopping at the first error
RECURSIVE CreateIndexes(_, _)
CreateIndexes(indicies, table) ==
    IF indicies = <<>> THEN [err |-> FALSE, table |-> table]
    ELSE LET r == StoreCreateIndex(CreateIndexQuery(Head(indicies)), table)
         IN IF r.err THEN [err |-> TRUE, table |-> table]
            ELSE CreateIndexes(Tail(indicies),
                               [table EXCEPT !.indexes = @ \cup {r.name}])

\* the INSERT text for n fields
RECURSIVE InsertParams(_, _)
InsertParams(i, n) ==
    IF i > n THEN <<>>
    ELSE (IF i = n THEN ParamLast ELSE ParamNext) \o InsertParams(i + 1, n)

InsertQuery(n) == InsertPrefix \o InsertParams(1, n)

\* a variant that fills the cells a short line lacks with empty strings
InsertArgsPadded(line, n) ==
    [ok |-> TRUE, args |-> [i \in 1..n |-> IF i <= Len(line) THEN line[i] ELSE <<>>]]

\* the arguments of the INSERT: the first n cells of the line; line[i] beyond the
\* line's last cell panics (ok is FALSE)
InsertArgs(line, n) ==
    IF Len(line) >= n
    THEN [ok |-> TRUE, args |-> SubSeq(line, 1, n)]
    ELSE [ok |-> FALSE, args |-> <<>>]

\* a variant that takes any read error for the end of the file
ReadOutcomeLenient(err) == IF err # "nil" THEN "done" ELSE "row"

\* what the import loop does with the result of a read: stop at the end of the
\* file, die on any other error, insert the row otherwise
ReadOutcome(err) ==
    IF err = "EOF" THEN "done" ELSE IF err # "nil" THEN "fatal" ELSE "row"

(***************************************************************************)
(* The inputs explored: configurations, files and requests.                *)
(***************************************************************************)
DelimiterStrings == {<<>>, <<",">>, <<"|">>, <<"|", ",">>, <<InvalidByte>>}
HeaderStrings == {<<>>, <<"a", "|", "b">>, <<"a", ",", "b", ",", "c">>}
IndiciesStrings == {<<>>, <<"a">>, <<"z">>, <<"a", ",", "b">>}

NoFile == << <<"<unreadable>">> >>

Files ==
    { <<>>,
      <<<<"a", ",", "b">>, <<"x", ",", "N", "a", "N">>, <<>>, <<"x", ",", "x">>>>,
      <<<<"a", ",", "b", ",", "c">>, <<"x", ",", "x">>>>,
      <<<<"a", ",", "b", ",", "c">>, <<"x", ",", "N", "a", "N", ",", "x">>>>,
      <<<<"a", ",", "A">>, <<"x", ",", "x">>>>,
      <<<<"a", ",", "!">>, <<"x", ",", "x">>>>,
      <<<<"c", "|", "d">>, <<"x", "|", "N", "a", "N">>, <<"1", ",", "2", "3", "4", "|", "S", "m", "i", "t", "h", ",", " ", "J", "r", ".">>>>,
      NoFile }

Config(path, delimiter, fieldCount, hasHeader, header, indicies) ==
    [file |-> path, delimiter |-> delimiter, fieldCount |-> fieldCount,
     hasHeader |-> hasHeader, header |-> header, indicies |-> indicies]

\* the configurations explored: every delimiter string with every custom header;
\* every field count with every custom header, for the comma; the custom header
\* a|b with its own length as the field count, for |; every index list; and no
\* file given
Configs ==
    {Config(TRUE, d, 0, hh, h, <<>>) :
        d \in DelimiterStrings, hh \in BOOLEAN, h \in HeaderStrings}
    \cup {Config(TRUE, <<",">>, n, hh, h, <<>>) :
        n \in 0..MaxFieldCount, hh \in BOOLEAN, h \in HeaderStrings}
    \cup {Config(TRUE, <<"|">>, 2, TRUE, <<"a", "|", "b">>, <<>>)}
    \cup {Config(TRUE, <<",">>, 0, TRUE, <<>>, i) : i \in IndiciesStrings}
    \cup {Config(FALSE, <<",">>, 0, TRUE, <<>>, <<>>)}

KeyA == <<"a">>
KeyB == <<"b">>
KeyZ == <<"z">>
\* a parameter name that closes the SELECT and opens a second statement
KeyInject == <<"a", "=", "a", ";", "D", "E", "L", "E", "T", "E", " ", "F", "R", "O", "M", " ", "c", "s", "v", " ", "W", "H", "E", "R", "E", " ", "a">>
Keys == {KeyA, KeyB, KeyZ, KeyInject}
Values == {<<"x">>, <<"N", "a", "N">>}

\* the value lists one key may carry
ValueLists == UNION {[1..n -> Values] : n \in 0..MaxParams}

RECURSIVE SumLen(_, _)
SumLen(r, S) ==
    IF S = {} THEN 0
    ELSE LET k == CHOOSE k \in S : TRUE IN Len(r[k]) + SumLen(r, S \ {k})

\* c.Request.URL.Query(): each key with its values, at most MaxParams pairs in all
Requests == {r \in [Keys -> ValueLists] : SumLen(r, Keys) <= MaxParams}

\* the cells the result projector is explored on, and their characters
CellChars == {"1", "0", ",", ".", "-", "e", "N", "a", "x"}
Cells == UNION {[1..n -> CellChars] : n \in 0..MaxCellLen}
        \cup {<<"1", ",", "2", "3", "4">>, <<"S", "m", "i", "t", "h", ",", " ", "J", "r", ".">>}

(***************************************************************************)
(* The program.                                                            *)
(***************************************************************************)
NoTable == [created |-> FALSE, columns |-> <<>>, indexes |-> {}, rows |-> <<>>]
NoValue == [t |-> "none", s |-> <<>>, n |-> NotANumber]

Globals ==
    /\ csvDelimiter = NoRune
    /\ csvFieldCount = 0
    /\ csvHeader = <<>>
    /\ csvIndicies = <<>>
    /\ reader = [pos |-> 1, fieldsPerRecord |-> 0]
    /\ db = NoTable
    /\ rows = 0
    /\ req = <<>>
    /\ resp = NoResponse

Init ==
    /\ pc = "start"
    /\ cfg \in Configs
    /\ file \in Files
    /\ Globals
    /\ cell = <<>>
    /\ value = NoValue

\* log.Fatal, or a panic: the process is gone
Exit == pc' = "exited"

\* parseEnvironment
ParseEnvironment ==
    /\ pc = "start"
    /\ LET delimiter == DecodeRuneInString(cfg.delimiter)
       IN IF ~cfg.file
          THEN Exit /\ UNCHANGED <<csvDelimiter, csvFieldCount, csvHeader, csvIndicies>>
          ELSE IF delimiter = RuneError
          THEN /\ Exit
               /\ csvDelimiter' = delimiter
               /\ UNCHANGED <<csvFieldCount, csvHeader, csvIndicies>>
          ELSE /\ pc' = "parsed"
               /\ csvDelimiter' = delimiter
               /\ csvFieldCount' = cfg.fieldCount
               /\ csvHeader' = IF cfg.header # <<>>
                               THEN trySplit(cfg.header, << delimiter, "," >>)
                               ELSE <<>>
               /\ csvIndicies' = IF cfg.indicies # <<>>
                                 THEN trySplit(cfg.indicies, << delimiter, "," >>)
                                 ELSE <<>>
    /\ UNCHANGED <<cfg, file, reader, db, rows, req, resp, cell, value>>

\* processCSV, up to the field count: the file is opened, the header line read
ResolveSchema ==
    /\ pc = "parsed"
    /\ LET r == ReaderRead(reader, file, csvDelimiter)
           header == IF cfg.hasHeader THEN HeaderAfterRead(csvHeader, r.line) ELSE csvHeader
       IN IF file = NoFile \/ (cfg.hasHeader /\ r.err # "nil")
          THEN Exit /\ UNCHANGED <<reader, csvHeader, csvFieldCount>>
          ELSE /\ pc' = "resolved"
               /\ reader' = IF cfg.hasHeader THEN r.reader ELSE reader
               /\ csvHeader' = header
               /\ csvFieldCount' = ResolveFieldCount(csvFieldCount, header)
    /\ UNCHANGED <<cfg, file, csvDelimiter, csvIndicies, db, rows, req, resp, cell, value>>

\* processCSV: the table is created; csvHeader[i] beyond the header panics
CreateTable ==
    /\ pc = "resolved"
    /\ LET r == StoreCreateTable(CreateTableQuery(csvHeader, csvFieldCount))
       IN IF csvFieldCount > Len(csvHeader) \/ r.err
          THEN Exit /\ UNCHANGED db
          ELSE /\ pc' = "table"
               /\ db' = [db EXCEPT !.created = TRUE, !.columns = r.columns]
    /\ UNCHANGED <<cfg, file, csvDelimiter, csvFieldCount, csvHeader, csvIndicies,
                   reader, rows, req, resp, cell, value>>

\* processCSV: the indexes are created
CreateIndicies ==
    /\ pc = "table"
    /\ LET r == CreateIndexes(csvIndicies, db)
       IN IF r.err
          THEN Exit /\ UNCHANGED db
          ELSE pc' = "import" /\ db' = r.table
    /\ UNCHANGED <<cfg, file, csvDelimiter, csvFieldCount, csvHeader, csvIndicies,
                   reader, rows, req, resp, cell, value>>

\* processCSV: one turn of the import loop
ImportRow ==
    /\ pc = "import"
    /\ LET r == ReaderRead(reader, file, csvDelimiter)
           outcome == ReadOutcome(r.err)
           a == InsertArgs(r.line, csvFieldCount)
       IN IF outcome = "done"
          THEN pc' = "imported" /\ reader' = r.reader /\ UNCHANGED <<db, rows>>
          ELSE IF outcome = "fatal"
          THEN Exit /\ reader' = r.reader /\ UNCHANGED <<db, rows>>
          ELSE IF ~a.ok \/ StoreInsert(InsertQuery(csvFieldCount), a.args, db).err
          THEN Exit /\ reader' = r.reader /\ UNCHANGED <<db, rows>>
          ELSE /\ pc' = "import"
               /\ reader' = r.reader
               /\ db' = [db EXCEPT !.rows = Append(@, a.args)]
               /\ rows' = rows + 1
    /\ UNCHANGED <<cfg, file, csvDelimiter, csvFieldCount, csvHeader, csvIndicies,
                   req, resp, cell, value>>

\* serveJSON: the server starts listening, or cannot and the process dies
ServeJSON ==
    /\ pc = "imported"
    /\ \/ pc' = "serving"
       \/ Exit
    /\ UNCHANGED <<cfg, file, csvDelimiter, csvFieldCount, csvHeader, csvIndicies,
                   reader, db, rows, req, resp, cell, value>>

\* a GET / arrives and is routed to handleRequest
Receive ==
    /\ pc = "serving"
    /\ req = <<>>
    /\ \E r \in Requests : req' = <<r>>
    /\ UNCHANGED <<pc, cfg, file, csvDelimiter, csvFieldCount, csvHeader, csvIndicies,
                   reader, db, rows, resp, cell, value>>

\* the response to a query's outcome: 400 on a query error, the records of the
\* rows as a JSON array otherwise, unless the array cannot be encoded
Response(q, data) ==
    IF q.err THEN [status |-> 400, kind |-> "error", data |-> <<>>]
    ELSE IF ~Encodable(data) THEN [status |-> 0, kind |-> "failed", data |-> <<>>]
    ELSE [status |-> 200, kind |-> "array", data |-> data]

\* the records of the rows of a result
Records(q) == [i \in DOMAIN q.rows |-> ProjectRow(q.columns, q.rows[i])]

Answer(q) == [resp |-> Response(q, Records(q)), after |-> q.after]

\* handleRequest on the (key, value) pairs of a request, in the order the handler
\* ranges over them: the response, and the rows of the table afterwards
Handle(pairs, table) ==
    Answer(StoreQuery(BuildQuery(pairs), BuildArgs(pairs), table))

\* the responses the client may see for a response of the handler: the response
\* itself, or one of the statuses of a failed encoding
Rendered(r) ==
    IF r.kind = "failed"
    THEN {[r EXCEPT !.status = s] : s \in RenderFailureStatus}
    ELSE {r}

\* handleRequest
HandleRequest ==
    /\ pc = "serving"
    /\ req # <<>>
    /\ resp = NoResponse
    /\ \E order \in Orders(KeysOf(req[1])) :
          LET h == Handle(PairsOf(req[1], order), db)
          IN /\ resp' \in Rendered(h.resp)
             /\ db' = [db EXCEPT !.rows = h.after]
    /\ UNCHANGED <<pc, cfg, file, csvDelimiter, csvFieldCount, csvHeader, csvIndicies,
                   reader, rows, req, cell, value>>

\* the response is written and handleRequest returns
Respond ==
    /\ pc = "serving"
    /\ resp # NoResponse
    /\ req' = <<>>
    /\ resp' = NoResponse
    /\ UNCHANGED <<pc, cfg, file, csvDelimiter, csvFieldCount, csvHeader, csvIndicies,
                   reader, db, rows, cell, value>>

\* the interrupt: shutdown stops the server, which waits for the request being
\* handled, and closes the store
Shutdown ==
    /\ pc = "serving"
    /\ req = <<>>
    /\ pc' = "stopped"
    /\ UNCHANGED <<cfg, file, csvDelimiter, csvFieldCount, csvHeader, csvIndicies,
                   reader, db, rows, req, resp, cell, value>>

Next ==
    \/ ParseEnvironment
    \/ ResolveSchema
    \/ CreateTable
    \/ CreateIndicies
    \/ ImportRow
    \/ ServeJSON
    \/ Receive
    \/ HandleRequest
    \/ Respond
    \/ Shutdown

Spec == Init /\ [][Next]_vars

(***************************************************************************)
(* The result projector on its own, over every short cell.                 *)
(***************************************************************************)
ProjectInit ==
    /\ pc = "project"
    /\ cfg = Config(FALSE, <<>>, 0, FALSE, <<>>, <<>>)
    /\ file = <<>>
    /\ Globals
    /\ cell \in Cells
    /\ value = NoValue

Project ==
    /\ pc = "project"
    /\ pc' = "projected"
    /\ value' = ProjectCell(cell)
    /\ UNCHANGED <<cfg, file, csvDelimiter, csvFieldCount, csvHeader, csvIndicies,
                   reader, db, rows, req, resp, cell>>

ProjectSpec == ProjectInit /\ [][Project]_vars

(***************************************************************************)
(* What the claims speak of.                                               *)
(***************************************************************************)
\* the request being handled has been answered, and the answer is still at hand
Handled == pc = "serving" /\ req # <<>> /\ resp # NoResponse

\* the request carries exactly the values vs for key k, and nothing else
Carries(r, k, n) == Len(r[k]) = n /\ \A j \in DOMAIN r : j # k => r[j] = <<>>

\* the records of the file: its non-empty lines split at the delimiter in use
IsRecordLine(l) == l # <<>>
FileRecords == [i \in DOMAIN SelectSeq(file, IsRecordLine) |->
                   Split(SelectSeq(file, IsRecordLine)[i], csvDelimiter)]

\* the records after the header line, when the file is said to have one
DataRecords == IF cfg.hasHeader THEN Tail(FileRecords) ELSE FileRecords

\* the file can be read, and no header line is missing from it
Readable == file # NoFile /\ (cfg.hasHeader => FileRecords # <<>>)

\* schema resolution and table creation are over, and succeeded
TableCreated == db.created

\* C1: a request without parameters is answered with a 400-class status and
\* never with rows of the table.
C1_ZeroParametersRejected ==
    (Handled /\ KeysOf(req[1]) = {}) =>
        /\ resp.status \in 400..499
        /\ resp.data = <<>>

\* C2, as stated: a request with two values for one key, against a non-empty
\* store, is answered 200 with an empty array.
C2_TwoValuesAlwaysEmpty ==
    \A k \in Keys :
        (Handled /\ Carries(req[1], k, 2) /\ db.rows # <<>>) =>
            resp = [status |-> 200, kind |-> "array", data |-> <<>>]

\* C2, amended: a request with two different values for one key that names a
\* column of the table, against a non-empty store, is answered 200 with an empty
\* array.
C2_TwoDistinctValuesOfColumnEmpty ==
    \A k \in Keys :
        (/\ Handled /\ Carries(req[1], k, 2) /\ db.rows # <<>>
         /\ IsIdentifier(k) /\ ColumnIndex(db.columns, k) # 0
         /\ req[1][k][1] # req[1][k][2]) =>
            resp = [status |-> 200, kind |-> "array", data |-> <<>>]

C2_Witness ==
    /\ Handled /\ Carries(req[1], KeyA, 2) /\ db.rows # <<>>
    /\ ColumnIndex(db.columns, KeyA) # 0
    /\ req[1][KeyA] = <<<<"x">>, <<"N", "a", "N">>>>
    /\ \E i \in DOMAIN db.rows : db.rows[i][1] = <<"x">>
    /\ resp = [status |-> 200, kind |-> "array", data |-> <<>>]

\* the rows of the table whose cell in column c is v, in the table's order
RowsWith(c, v) ==
    LET has(row) == row[c] = v IN SelectSeq(db.rows, has)

\* C3: with header [a,b] and field count 2, the request column=value is answered
\* with exactly the rows whose cell in that column is the value, in import order,
\* so every row is returned for the value of its own cell.
C3_RoundTrip ==
    \A k \in {KeyA, KeyB} :
        (/\ Handled /\ Carries(req[1], k, 1)
         /\ csvHeader = <<KeyA, KeyB>> /\ csvFieldCount = 2
         /\ db.columns = <<KeyA, KeyB>>) =>
            /\ resp.status = 200
            /\ resp.kind = "array"
            /\ Len(resp.data) = Len(RowsWith(ColumnIndex(db.columns, k), req[1][k][1]))
            /\ \A i \in DOMAIN resp.data :
                  resp.data[i] = ProjectRow(db.columns,
                      RowsWith(ColumnIndex(db.columns, k), req[1][k][1])[i])

\* has-header, custom header a|b, delimiter |, and the field count left to be
\* detected or given as the header's length
CustomHeaderCase ==
    /\ cfg.file /\ cfg.hasHeader /\ cfg.header = <<"a", "|", "b">> /\ cfg.delimiter = <<"|">>
    /\ cfg.fieldCount \in {0, 2}

\* C4: with has-header and the custom header a|b, the columns are a and b whatever
\* the file's first line is, and that line is consumed: the rows imported are the
\* records that follow it, in order.
C4_CustomHeaderWins ==
    CustomHeaderCase =>
        /\ TableCreated => db.columns = <<<<"a">>, <<"b">>>> /\ csvHeader = <<<<"a">>, <<"b">>>>
        /\ pc \in {"resolved", "table"} =>
              reader.pos = NextLine(file, 1) + 1
        /\ pc \in {"import", "imported"} =>
              /\ Len(db.rows) <= Len(DataRecords)
              /\ \A i \in DOMAIN db.rows : db.rows[i] = SubSeq(DataRecords[i], 1, 2)

C4_Witness ==
    /\ CustomHeaderCase /\ pc = "imported"
    /\ FileRecords[1] # <<<<"a">>, <<"b">>>>
    /\ db.columns = <<<<"a">>, <<"b">>>>
    /\ Len(db.rows) = 2
    /\ db.rows[1] = SubSeq(FileRecords[2], 1, 2)

\* the index of the first data record with fewer cells than the field count, 0 if none
FirstShort ==
    IF \E i \in DOMAIN DataRecords : Len(DataRecords[i]) < csvFieldCount
    THEN CHOOSE i \in DOMAIN DataRecords :
            /\ Len(DataRecords[i]) < csvFieldCount
            /\ \A j \in 1..(i-1) : Len(DataRecords[j]) >= csvFieldCount
    ELSE 0

\* C5: a data record with fewer cells than the resolved field count fails the
\* import: it is never inserted, padded or not, the import never completes and
\* the server never starts; once the record has been read the process is gone.
C5_ShortRowFatal ==
    (TableCreated /\ Readable /\ FirstShort # 0) =>
        /\ pc \notin {"imported", "serving", "stopped"}
        /\ rows < FirstShort
        /\ Len(db.rows) < FirstShort
        /\ \A i \in DOMAIN db.rows : Len(DataRecords[i]) >= csvFieldCount
        /\ Len(SelectSeq(SubSeq(file, 1, reader.pos - 1), IsRecordLine))
               >= FirstShort + (IF cfg.hasHeader THEN 1 ELSE 0)
             => pc = "exited"

C5_Witness ==
    /\ TableCreated /\ Readable /\ FirstShort # 0
    /\ pc = "exited"
    /\ csvFieldCount = 3 /\ Len(DataRecords[FirstShort]) = 2
    /\ Len(SelectSeq(SubSeq(file, 1, reader.pos - 1), IsRecordLine))
           >= FirstShort + (IF cfg.hasHeader THEN 1 ELSE 0)

IndexName(index) == ToLower(index \o <<"_", "i", "d", "x">>)

\* C7: requests are handled only by a process whose startup completed: the file
\* was readable, the table and every configured index exist, the reader is at the
\* end of the file and every data record was imported; a process that failed has
\* handled no request.
C7_NeverHalfLoaded ==
    /\ (pc \in {"serving", "stopped"} \/ req # <<>> \/ resp # NoResponse) =>
          /\ pc \in {"serving", "stopped"}
          /\ Readable
          /\ TableCreated
          /\ \A i \in DOMAIN csvIndicies : IndexName(csvIndicies[i]) \in db.indexes
          /\ NextLine(file, reader.pos) = 0
          /\ rows = Len(DataRecords)
          /\ \A i \in DOMAIN DataRecords : Len(DataRecords[i]) >= csvFieldCount
    /\ pc = "exited" => req = <<>> /\ resp = NoResponse

C7_Witness ==
    /\ Handled
    /\ rows = 2 /\ Len(DataRecords) = 2
    /\ csvIndicies # <<>>

\* C8: while serving, no request changes the table.
C8_ServingReadOnly == [][pc = "serving" => db' = db]_vars

\* C9: once the schema is resolved the header has as many tokens as the field
\* count, and the table has one column per header token, named by its sanitized
\* token.
C9_ColumnsMatchFieldCount ==
    TableCreated =>
        /\ Len(csvHeader) = csvFieldCount
        /\ db.columns = [i \in DOMAIN csvHeader |-> ColumnName(csvHeader[i])]

\* C10: past configuration parsing the configured delimiter string is a single
\* character, and that character is the delimiter in use.
C10_DelimiterSingleCharacter ==
    pc \notin {"start", "exited"} =>
        /\ Len(cfg.delimiter) = 1
        /\ csvDelimiter = cfg.delimiter[1]

====
